---- MODULE Spec2Model ----
(***************************************************************************)
(* State-machine model of rafting.py: the availability normalizer          *)
(* (get_permit_information), the aggregator (get_num_available_dates), the *)
(* two renderers and the orchestrator (main).                              *)
(*                                                                         *)
(* Representation                                                          *)
(*   datetime   every datetime of the program is a midnight value, so it   *)
(*              is modelled by its proleptic Gregorian ordinal (an Int).   *)
(*   date str   the "%Y-%m-%dT00:00:00Z" / "%Y-%m-%d" texts are modelled   *)
(*              by the triple <<year, month, day>>; their lexicographic    *)
(*              order is the order of the zero-padded text.                *)
(*   dict       Python dicts keep insertion order: a dict is a sequence of *)
(*              records carrying their key (field id / date / permit_id).  *)
(*   JSON dict  a response object read with .get(key, default) is a TLA+   *)
(*              function whose DOMAIN holds the keys that are present.     *)
(***************************************************************************)
EXTENDS Integers, Sequences, FiniteSets, TLC

VARIABLES
    args,               \* the global argparse namespace main reads
    permits,            \* main's parameter: the list of permit ids
    json_output,        \* main's parameter: the renderer flag
    pc,                 \* position of the run inside main / check_permit
    idx,                \* index in permits of the permit being checked
    months,             \* get_permit_information: the months to fetch
    api_data,           \* get_permit_information: the responses fetched so far
    permit_information, \* check_permit: the normalizer's return value
    dates_in_range_set, \* get_num_available_dates: the candidate date set
    info_by_permit_id,  \* main: the RunResult being accumulated
    trace,              \* every external call, component call and print, in order
    output,             \* main: the rendered output
    stdout,             \* what print() has written
    ret                 \* main's return value

vars == <<args, permits, json_output, pc, idx, months, api_data,
          permit_information, dates_in_range_set, info_by_permit_id,
          trace, output, stdout, ret>>

(***************************************************************************)
(* Bounds of the model                                                     *)
(***************************************************************************)
MaxStartOffset == 6      \* start_date ranges over BaseDay + 0..MaxStartOffset
MaxWindowDays == 7       \* end_date - start_date ranges over -1..MaxWindowDays
MaxMinPermits == 2       \* --min-permits ranges over 1..MaxMinPermits
MaxRemaining == 2        \* the service reports 0..MaxRemaining remaining permits
MaxPermits == 2          \* main is run on lists of at most MaxPermits permit ids

(***************************************************************************)
(* datetime: ordinals, calendar fields, weekday                            *)
(***************************************************************************)
IsLeap(y) == (y % 4 = 0) /\ ((y % 100 # 0) \/ (y % 400 = 0))

DaysInMonth(y, m) ==
    IF m = 2 THEN (IF IsLeap(y) THEN 29 ELSE 28)
    ELSE IF m \in {4, 6, 9, 11} THEN 30 ELSE 31

RECURSIVE DaysBeforeMonth(_, _)
DaysBeforeMonth(y, m) ==
    IF m = 1 THEN 0 ELSE DaysBeforeMonth(y, m - 1) + DaysInMonth(y, m - 1)

DaysBeforeYear(y) ==
    (y - 1) * 365 + ((y - 1) \div 4) - ((y - 1) \div 100) + ((y - 1) \div 400)

\* datetime(y, m, d)
datetime(y, m, d) == DaysBeforeYear(y) + DaysBeforeMonth(y, m) + d

YearOf(n) ==
    CHOOSE y \in (n \div 366)..((n \div 365) + 1) :
        DaysBeforeYear(y) < n /\ n <= DaysBeforeYear(y + 1)

MonthOf(n) ==
    LET y == YearOf(n)
        doy == n - DaysBeforeYear(y)
    IN  CHOOSE m \in 1..12 :
            DaysBeforeMonth(y, m) < doy
            /\ doy <= DaysBeforeMonth(y, m) + DaysInMonth(y, m)

DayOf(n) == n - DaysBeforeYear(YearOf(n)) - DaysBeforeMonth(YearOf(n), MonthOf(n))

\* date.weekday(): Monday = 0 ... Sunday = 6
weekday(n) == (n + 6) % 7

\* the calendar fields of every day the inputs below can involve, computed once
CalendarDays == datetime(2022, 11, 1)..datetime(2023, 2, 28)
Calendar == [n \in CalendarDays |-> <<YearOf(n), MonthOf(n), DayOf(n)>>]

\* formatter.format_date(date, format_string) / date.strftime(format)
format_date(n) == Calendar[n]

\* datetime.strptime(date_str, format)
strptime(s) == datetime(s[1], s[2], s[3])

\* s < t on date strings (lexicographic)
StrLess(s, t) ==
    \/ s[1] < t[1]
    \/ s[1] = t[1] /\ s[2] < t[2]
    \/ s[1] = t[1] /\ s[2] = t[2] /\ s[3] < t[3]

(***************************************************************************)
(* dict helpers                                                            *)
(***************************************************************************)
\* d.get(k, default) on a JSON object
GetOr(d, k, default) == IF k \in DOMAIN d THEN d[k] ELSE default

\* the empty JSON object {}
EmptyObj == [k \in {} |-> 0]

Range(s) == {s[i] : i \in 1..Len(s)}

\* position of key k in an ordered dict keyed by field "id", 0 when absent
RECURSIVE IndexOfId(_, _, _)
IndexOfId(d, k, i) ==
    IF i > Len(d) THEN 0
    ELSE IF d[i].id = k THEN i ELSE IndexOfId(d, k, i + 1)

(***************************************************************************)
(* get_permit_information: the availability normalizer                     *)
(***************************************************************************)
\* datetime(start_date.year, start_date.month, 1)
start_of_month(n) == datetime(Calendar[n][1], Calendar[n][2], 1)

\* rrule_monthly with until exclusive
RECURSIVE rrule_monthly_before(_, _)
rrule_monthly_before(dtstart, until) ==
    IF dtstart >= until THEN <<>>
    ELSE <<dtstart>>
         \o rrule_monthly_before(
                dtstart + DaysInMonth(Calendar[dtstart][1], Calendar[dtstart][2]),
                until)

\* rrule.rrule(rrule.MONTHLY, dtstart=a first of a month, until=end_date)
RECURSIVE rrule_monthly(_, _)
rrule_monthly(dtstart, until) ==
    IF dtstart > until THEN <<>>
    ELSE <<dtstart>>
         \o rrule_monthly(
                dtstart + DaysInMonth(Calendar[dtstart][1], Calendar[dtstart][2]),
                until)

\* has_remaining with the test "remaining < 0"
has_remaining_or_zero(remaining) == ~(remaining < 0)

\* the negation of "if remaining <= 0: continue"
has_remaining(remaining) == ~(remaining <= 0)

\* the negation of "if date_obj < start_date or date_obj >= end_date: continue"
in_requested_range(date_obj, start_date, end_date) ==
    ~(date_obj < start_date \/ date_obj >= end_date)

\* the loop over date_availability.items() for one division of one month
RECURSIVE append_dates(_, _, _, _, _)
append_dates(available_dates, date_availability, i, start_date, end_date) ==
    IF i > Len(date_availability) THEN available_dates
    ELSE LET date_str == date_availability[i].date
             avail_info == date_availability[i].info
             remaining == GetOr(avail_info, "remaining", 0)
             total == GetOr(avail_info, "total", 0)
             keep == /\ has_remaining(remaining)
                     /\ in_requested_range(strptime(date_str), start_date, end_date)
         IN  append_dates(
                 IF keep
                 THEN Append(available_dates,
                             [date |-> date_str, remaining |-> remaining,
                              total |-> total])
                 ELSE available_dates,
                 date_availability, i + 1, start_date, end_date)

\* div_info.get("name", "Division {}".format(division_id))
division_name(divisions_info, division_id) ==
    GetOr(GetOr(divisions_info, division_id, EmptyObj), "name",
          <<"Division", division_id>>)

\* new_division with the entry assigned whether or not division_id is in data
new_division_always(data, division_id, divisions_info) ==
    IF IndexOfId(data, division_id, 1) = 0
    THEN Append(data,
                [id |-> division_id,
                 name |-> division_name(divisions_info, division_id),
                 available_dates |-> <<>>])
    ELSE [data EXCEPT ![IndexOfId(data, division_id, 1)].available_dates = <<>>]

\* "if division_id not in data: data[division_id] = {name, available_dates: []}"
new_division(data, division_id, divisions_info) ==
    IF IndexOfId(data, division_id, 1) = 0
    THEN Append(data,
                [id |-> division_id,
                 name |-> division_name(divisions_info, division_id),
                 available_dates |-> <<>>])
    ELSE data

\* the loop over availability.items() for one month
RECURSIVE collapse_month(_, _, _, _, _, _)
collapse_month(data, availability, i, divisions_info, start_date, end_date) ==
    IF i > Len(availability) THEN data
    ELSE LET division_id == availability[i].id
             division_data == availability[i].data
             data1 == new_division(data, division_id, divisions_info)
             k == IndexOfId(data1, division_id, 1)
             date_availability == GetOr(division_data, "date_availability", <<>>)
             data2 == [data1 EXCEPT ![k].available_dates =
                           append_dates(@, date_availability, 1,
                                        start_date, end_date)]
         IN  collapse_month(data2, availability, i + 1, divisions_info,
                            start_date, end_date)

\* the loop over api_data
RECURSIVE collapse(_, _, _, _, _, _)
collapse(data, api_data_, i, divisions_info, start_date, end_date) ==
    IF i > Len(api_data_) THEN data
    ELSE LET month_data == api_data_[i]
             payload == GetOr(month_data, "payload", month_data)
             availability == GetOr(payload, "availability", <<>>)
         IN  collapse(collapse_month(data, availability, 1, divisions_info,
                                     start_date, end_date),
                      api_data_, i + 1, divisions_info, start_date, end_date)

\* list.sort(key=lambda x: x["date"]): a stable sort, here by insertion
RECURSIVE insert_by_date(_, _)
insert_by_date(sorted, x) ==
    IF sorted = <<>> THEN <<x>>
    ELSE IF StrLess(x.date, sorted[Len(sorted)].date)
         THEN Append(insert_by_date(SubSeq(sorted, 1, Len(sorted) - 1), x),
                     sorted[Len(sorted)])
         ELSE Append(sorted, x)

RECURSIVE sort_by_date(_)
sort_by_date(s) ==
    IF s = <<>> THEN <<>>
    ELSE insert_by_date(sort_by_date(SubSeq(s, 1, Len(s) - 1)), s[Len(s)])

\* sort_available_dates without the sort
sort_available_dates_skipped(data) == data

\* "for division_id in data: data[division_id]["available_dates"].sort(...)"
sort_available_dates(data) ==
    [k \in 1..Len(data) |->
        [data[k] EXCEPT !.available_dates = sort_by_date(@)]]

\* get_permit_information once every response is in: collapse, sort, return
normalize(api_data_, permit_info, start_date, end_date) ==
    LET divisions_info == GetOr(GetOr(permit_info, "payload", EmptyObj),
                                "divisions", EmptyObj)
    IN  sort_available_dates(
            collapse(<<>>, api_data_, 1, divisions_info, start_date, end_date))

(***************************************************************************)
(* get_num_available_dates: the aggregator                                 *)
(***************************************************************************)
\* is_weekend with Saturday and Sunday
is_weekend_sat_sun(date) == weekday(date) = 5 \/ weekday(date) = 6

is_weekend(date) == weekday(date) = 4 \/ weekday(date) = 5

\* dates_in_range with range(0, num_days): end_date first, start_date left out
dates_in_range_from_end(start_date, end_date) ==
    LET num_days == end_date - start_date
    IN  [i \in 1..(IF num_days > 0 THEN num_days ELSE 0) |-> end_date - (i - 1)]

\* [end_date - timedelta(days=i) for i in range(1, num_days + 1)]
dates_in_range(start_date, end_date) ==
    LET num_days == end_date - start_date
    IN  [i \in 1..(IF num_days > 0 THEN num_days ELSE 0) |-> end_date - i]

\* dates_in_range_set, after the optional weekend filter
candidate_dates(start_date, end_date, weekends_only) ==
    LET all == Range(dates_in_range(start_date, end_date))
        kept == IF weekends_only THEN {d \in all : is_weekend(d)} ELSE all
    IN  {format_date(d) : d \in kept}

\* is_matching with "remaining > min_permits"
is_matching_above(avail, dates_set, min_permits) ==
    avail.date \in dates_set /\ avail.remaining > min_permits

\* avail["date"] in dates_in_range_set and avail["remaining"] >= min_permits
is_matching(avail, dates_set, min_permits) ==
    avail.date \in dates_set /\ avail.remaining >= min_permits

matching_dates(available_dates, dates_set, min_permits) ==
    SelectSeq(available_dates, LAMBDA avail : is_matching(avail, dates_set, min_permits))

\* available_divisions_of without the "if matching_dates:" test
available_divisions_with_empty(permit_information_, i, dates_set, min_permits) ==
    [k \in 1..Len(permit_information_) |->
        [id |-> permit_information_[k].id, name |-> permit_information_[k].name,
         dates |-> SelectSeq(permit_information_[k].available_dates,
                             LAMBDA avail : is_matching(avail, dates_set, min_permits))]]

\* the loop over permit_information.items()
RECURSIVE available_divisions_of(_, _, _, _)
available_divisions_of(permit_information_, i, dates_set, min_permits) ==
    IF i > Len(permit_information_) THEN <<>>
    ELSE LET division == permit_information_[i]
             matching == matching_dates(division.available_dates, dates_set,
                                        min_permits)
             rest == available_divisions_of(permit_information_, i + 1,
                                            dates_set, min_permits)
         IN  IF matching # <<>>
             THEN <<[id |-> division.id, name |-> division.name,
                     dates |-> matching]>> \o rest
             ELSE rest

\* returns (len(available_divisions), total_divisions, available_divisions)
get_num_available_dates(info, start_date, end_date, weekends_only, min_permits) ==
    LET available == available_divisions_of(
                         info, 1,
                         candidate_dates(start_date, end_date, weekends_only),
                         min_permits)
    IN  [current |-> Len(available),
         maximum |-> Len(info),
         available_divisions |-> available]

(***************************************************************************)
(* The renderers.  A text of several lines is the sequence of its lines    *)
(* ("\n".join(out)); a line is the record of the values formatted into it. *)
(***************************************************************************)
\* position of permit_id in info_by_permit_id, 0 when absent
RECURSIVE IndexOfPermit(_, _, _)
IndexOfPermit(d, k, i) ==
    IF i > Len(d) THEN 0
    ELSE IF d[i].permit_id = k THEN i ELSE IndexOfPermit(d, k, i + 1)

\* info_by_permit_id[permit_id] = info
dict_set(d, permit_id, info) ==
    LET k == IndexOfPermit(d, permit_id, 1)
    IN  IF k = 0 THEN Append(d, [permit_id |-> permit_id, info |-> info])
        ELSE [d EXCEPT ![k].info = info]

\* show_division_headers without "or maximum > 1"
show_division_headers_by_len(available_divisions, maximum) ==
    Len(available_divisions) > 1

\* len(available_divisions) > 1 or maximum > 1
show_division_headers(available_divisions, maximum) ==
    Len(available_divisions) > 1 \/ maximum > 1

\* the lines of one division: its optional header, then its dates
division_lines(div_data, show_headers) ==
    (IF show_headers
     THEN <<[kind |-> "division", name |-> div_data.name, div_id |-> div_data.id]>>
     ELSE <<>>)
    \o [k \in 1..Len(div_data.dates) |->
           [kind |-> "date",
            indent |-> IF show_headers THEN "  " ELSE "",
            date |-> format_date(strptime(div_data.dates[k].date)),
            remaining |-> div_data.dates[k].remaining,
            total |-> div_data.dates[k].total]]

RECURSIVE divisions_lines(_, _, _)
divisions_lines(available_divisions, i, show_headers) ==
    IF i > Len(available_divisions) THEN <<>>
    ELSE division_lines(available_divisions[i], show_headers)
         \o divisions_lines(available_divisions, i + 1, show_headers)

\* the lines one permit contributes: its summary line, then its divisions
permit_lines(permit_id, info) ==
    <<[kind |-> "summary",
       emoji |-> IF info.current # 0 THEN "RAFTING_SUCCESS" ELSE "RAFTING_FAILURE",
       permit_name |-> info.permit_name,
       permit_id |-> permit_id,
       current |-> info.current,
       maximum |-> info.maximum]>>
    \o (IF info.available_divisions # <<>>
        THEN divisions_lines(info.available_divisions, 1,
                 show_division_headers(info.available_divisions, info.maximum))
        ELSE <<>>)

RECURSIVE human_lines(_, _)
human_lines(info_by_permit_id_, i) ==
    IF i > Len(info_by_permit_id_) THEN <<>>
    ELSE permit_lines(info_by_permit_id_[i].permit_id, info_by_permit_id_[i].info)
         \o human_lines(info_by_permit_id_, i + 1)

\* has_availabilities assigned, not only raised, by every permit of the loop
last_current(info_by_permit_id_) ==
    /\ info_by_permit_id_ # <<>>
    /\ info_by_permit_id_[Len(info_by_permit_id_)].info.current # 0

\* has_availabilities: some permit of the run has a truthy current
any_current(info_by_permit_id_) ==
    \E k \in 1..Len(info_by_permit_id_) : info_by_permit_id_[k].info.current # 0

\* out.insert(0, ...): the headline
headline(has_availabilities, start_date, end_date) ==
    IF has_availabilities
    THEN [kind |-> "headline", text |-> "there are permits available",
          start |-> format_date(start_date), end |-> format_date(end_date)]
    ELSE [kind |-> "headline", text |-> "There are no permits available :("]

generate_human_output(info_by_permit_id_, start_date, end_date) ==
    LET has_availabilities == any_current(info_by_permit_id_)
    IN  [output |-> <<headline(has_availabilities, start_date, end_date)>>
                    \o human_lines(info_by_permit_id_, 1),
         has_availabilities |-> has_availabilities]

\* json_keeps without the "if current:" test
json_keeps_all(info) == TRUE

\* the permits json output keeps: "if current:"
json_keeps(info) == info.current # 0

\* json.dumps(availabilities_by_permit_id): integer keys become strings
generate_json_output(info_by_permit_id_) ==
    LET kept == SelectSeq(info_by_permit_id_, LAMBDA e : json_keeps(e.info))
    IN  [output |-> [k \in 1..Len(kept) |->
                        [key |-> ToString(kept[k].permit_id),
                         value |-> kept[k].info.available_divisions]],
         has_availabilities |->
             \E k \in 1..Len(info_by_permit_id_) :
                 json_keeps(info_by_permit_id_[k].info)]

(***************************************************************************)
(* Inputs: what the command line and the permit service may supply         *)
(***************************************************************************)
BaseDay == datetime(2022, 12, 21)            \* a Wednesday
Fri23 == format_date(datetime(2022, 12, 23))
Sat24 == format_date(datetime(2022, 12, 24))
Mon26 == format_date(datetime(2022, 12, 26))
Sun01 == format_date(datetime(2023, 1, 1))

\* one item of a date_availability object
Entry(date_str, remaining, total) ==
    [date |-> date_str, info |-> [remaining |-> remaining, total |-> total]]

\* two date_availability objects: out of date order, with zero-remaining
\* entries, with an entry that lacks "remaining", across two months
DateAvailabilityA ==
    <<Entry(Mon26, 1, MaxRemaining + 1), Entry(Sat24, MaxRemaining, MaxRemaining + 1)>>
DateAvailabilityB ==
    <<Entry(Sun01, MaxRemaining, MaxRemaining), Entry(Mon26, 0, MaxRemaining),
      [date |-> Sat24, info |-> [total |-> MaxRemaining]],
      Entry(Fri23, 1, MaxRemaining)>>

Division(id, date_availability) ==
    [id |-> id, data |-> [date_availability |-> date_availability]]

MonthResponse(availability) == [payload |-> [availability |-> availability]]

\* every response with at most two divisions, each with one of the two objects
AllResponses ==
    {EmptyObj, [availability |-> <<Division("200", DateAvailabilityA)>>]}
    \cup {MonthResponse(<<Division(d, a)>>) :
            d \in {"100", "200"}, a \in {DateAvailabilityA, DateAvailabilityB}}
    \cup {MonthResponse(<<Division(d[1], a), Division(d[2], b)>>) :
            d \in {<<"100", "200">>, <<"200", "100">>},
            a \in {DateAvailabilityA, DateAvailabilityB},
            b \in {DateAvailabilityA, DateAvailabilityB}}

\* the responses of the runs over several permits
FewResponses ==
    {EmptyObj,
     MonthResponse(<<Division("100", DateAvailabilityA)>>),
     MonthResponse(<<Division("200", DateAvailabilityB),
                     Division("100", DateAvailabilityA)>>)}

\* get_permit_info responses: full metadata, and metadata with nothing in it
NamedInfo ==
    [payload |-> [name |-> <<"Name", "Some River Permit">>,
                  divisions |-> [d \in {"100"} |-> [name |-> <<"Name", "Section A">>]]]]
AllInfos == {NamedInfo, EmptyObj}
FewInfos == {NamedInfo}

AllWindows ==
    {[start_date |-> BaseDay + s, end_date |-> BaseDay + s + l] :
        s \in 0..MaxStartOffset, l \in (-1)..MaxWindowDays}

FewWindows ==
    {[start_date |-> datetime(2022, 12, 23), end_date |-> datetime(2022, 12, 27)],
     [start_date |-> datetime(2022, 12, 26), end_date |-> datetime(2023, 1, 2)]}

Args(windows, min_permits_set) ==
    {[start_date |-> w.start_date, end_date |-> w.end_date,
      weekends_only |-> wo, min_permits |-> mp] :
        w \in windows, wo \in BOOLEAN, mp \in min_permits_set}

RECURSIVE SeqsUpTo(_, _)
SeqsUpTo(S, n) ==
    IF n = 0 THEN {<<>>}
    ELSE SeqsUpTo(S, n - 1)
         \cup {Append(q, x) : q \in {r \in SeqsUpTo(S, n - 1) : Len(r) = n - 1},
                              x \in S}

(***************************************************************************)
(* main and check_permit, one action per step between external calls       *)
(***************************************************************************)
Event(op, permit_id, month) == [op |-> op, permit_id |-> permit_id, month |-> month]

permit_id_now == permits[idx]

InitWith(args_set, permits_set, json_set) ==
    /\ args \in args_set
    /\ permits \in permits_set
    /\ json_output \in json_set
    /\ pc = "main"
    /\ idx = 1
    /\ months = <<>>
    /\ api_data = <<>>
    /\ permit_information = <<>>
    /\ dates_in_range_set = {}
    /\ info_by_permit_id = <<>>
    /\ trace = <<>>
    /\ output = <<>>
    /\ stdout = <<>>
    /\ ret = <<>>

\* main's loop takes the next permit: check_permit calls
\* get_permit_information, which lists the months to fetch
CheckPermit ==
    /\ pc = "main"
    /\ idx <= Len(permits)
    /\ months' = rrule_monthly(start_of_month(args.start_date), args.end_date)
    /\ api_data' = <<>>
    /\ pc' = IF months' = <<>> THEN "permit_info" ELSE "availability"
    /\ trace' = Append(trace, Event("get_permit_information", permit_id_now, 0))
    /\ UNCHANGED <<args, permits, json_output, idx, permit_information,
                   dates_in_range_set, info_by_permit_id, output, stdout, ret>>

\* RecreationClient.get_permit_availability(permit_id, month_date) returns
GetAvailability(responses) ==
    /\ pc = "availability"
    /\ \E resp \in responses : api_data' = Append(api_data, resp)
    /\ pc' = IF Len(api_data') = Len(months) THEN "permit_info" ELSE "availability"
    /\ trace' = Append(trace, Event("get_permit_availability", permit_id_now,
                                    months[Len(api_data) + 1]))
    /\ UNCHANGED <<args, permits, json_output, idx, months, permit_information,
                   dates_in_range_set, info_by_permit_id, output, stdout, ret>>

\* raise with a handler around check_permit in main's loop
raise_caught == "main"

\* where an exception raised by an external call takes the run: neither
\* get_permit_information, check_permit nor main has a handler, so it leaves main
raise == "aborted"

\* the trace of an external call that raises
Raised(op, month) == <<Event(op, permit_id_now, month), Event("raise", permit_id_now, 0)>>

\* RecreationClient.get_permit_availability raises
GetAvailabilityFails ==
    /\ pc = "availability"
    /\ pc' = raise
    /\ trace' = trace \o Raised("get_permit_availability", months[Len(api_data) + 1])
    /\ UNCHANGED <<args, permits, json_output, idx, months, api_data,
                   permit_information, dates_in_range_set, info_by_permit_id,
                   output, stdout, ret>>

\* get_permit_information's RecreationClient.get_permit_info returns; the
\* function collapses and sorts the data and returns to check_permit
GetDivisionsInfo(infos) ==
    /\ pc = "permit_info"
    /\ \E permit_info \in infos :
           permit_information' =
               normalize(api_data, permit_info, args.start_date, args.end_date)
    /\ pc' = "permit_name"
    /\ trace' = Append(trace, Event("get_permit_info", permit_id_now, 0))
    /\ UNCHANGED <<args, permits, json_output, idx, months, api_data,
                   dates_in_range_set, info_by_permit_id, output, stdout, ret>>

GetDivisionsInfoFails ==
    /\ pc = "permit_info"
    /\ pc' = raise
    /\ trace' = trace \o Raised("get_permit_info", 0)
    /\ UNCHANGED <<args, permits, json_output, idx, months, api_data,
                   permit_information, dates_in_range_set, info_by_permit_id,
                   output, stdout, ret>>

\* check_permit's own RecreationClient.get_permit_info returns; it calls
\* get_num_available_dates and main stores the result under permit_id
GetPermitName(infos) ==
    /\ pc = "permit_name"
    /\ \E permit_info \in infos :
           LET permit_name ==
                   GetOr(GetOr(permit_info, "payload", EmptyObj), "name",
                         <<"Permit", ToString(permit_id_now)>>)
               r == get_num_available_dates(
                        permit_information, args.start_date, args.end_date,
                        args.weekends_only, args.min_permits)
           IN  info_by_permit_id' =
                   dict_set(info_by_permit_id, permit_id_now,
                            [current |-> r.current, maximum |-> r.maximum,
                             available_divisions |-> r.available_divisions,
                             permit_name |-> permit_name])
    /\ dates_in_range_set' =
           candidate_dates(args.start_date, args.end_date, args.weekends_only)
    /\ idx' = idx + 1
    /\ pc' = "main"
    /\ trace' = trace \o <<Event("get_permit_info", permit_id_now, 0),
                           Event("get_num_available_dates", permit_id_now, 0)>>
    /\ UNCHANGED <<args, permits, json_output, months, api_data,
                   permit_information, output, stdout, ret>>

GetPermitNameFails ==
    /\ pc = "permit_name"
    /\ pc' = raise
    /\ trace' = trace \o Raised("get_permit_info", 0)
    /\ UNCHANGED <<args, permits, json_output, idx, months, api_data,
                   permit_information, dates_in_range_set, info_by_permit_id,
                   output, stdout, ret>>

\* Render without the "if json_output:" branch
RenderHumanOnly ==
    /\ pc = "main"
    /\ idx > Len(permits)
    /\ output' = <<generate_human_output(info_by_permit_id,
                                         args.start_date, args.end_date)>>
    /\ trace' = Append(trace, Event("generate_human_output", 0, 0))
    /\ pc' = "print"
    /\ UNCHANGED <<args, permits, json_output, idx, months, api_data,
                   permit_information, dates_in_range_set, info_by_permit_id,
                   stdout, ret>>

\* the loop is over: main calls the renderer json_output selects
Render ==
    /\ pc = "main"
    /\ idx > Len(permits)
    /\ IF json_output
       THEN /\ output' = <<generate_json_output(info_by_permit_id)>>
            /\ trace' = Append(trace, Event("generate_json_output", 0, 0))
       ELSE /\ output' = <<generate_human_output(info_by_permit_id,
                                                 args.start_date, args.end_date)>>
            /\ trace' = Append(trace, Event("generate_human_output", 0, 0))
    /\ pc' = "print"
    /\ UNCHANGED <<args, permits, json_output, idx, months, api_data,
                   permit_information, dates_in_range_set, info_by_permit_id,
                   stdout, ret>>

\* print(output); return has_availabilities
PrintOutput ==
    /\ pc = "print"
    /\ stdout' = Append(stdout, output[1].output)
    /\ ret' = <<output[1].has_availabilities>>
    /\ pc' = "done"
    /\ trace' = Append(trace, Event("print", 0, 0))
    /\ UNCHANGED <<args, permits, json_output, idx, months, api_data,
                   permit_information, dates_in_range_set, info_by_permit_id,
                   output>>

\* runs of main over lists of permits, on few windows and responses
Init ==
    InitWith(Args(FewWindows, 1..MaxMinPermits), SeqsUpTo({1, 2}, MaxPermits), BOOLEAN)

Next ==
    \/ CheckPermit
    \/ GetAvailability(FewResponses)
    \/ GetAvailabilityFails
    \/ GetDivisionsInfo(FewInfos)
    \/ GetDivisionsInfoFails
    \/ GetPermitName(FewInfos)
    \/ GetPermitNameFails
    \/ Render
    \/ PrintOutput

Spec == Init /\ [][Next]_vars

\* runs of main on one permit, over every window and response
InitPermit ==
    InitWith(Args(AllWindows, 1..MaxMinPermits), {<<1>>}, {FALSE})

NextPermit ==
    \/ CheckPermit
    \/ GetAvailability(AllResponses)
    \/ GetAvailabilityFails
    \/ GetDivisionsInfo(AllInfos)
    \/ GetDivisionsInfoFails
    \/ GetPermitName(AllInfos)
    \/ GetPermitNameFails
    \/ Render
    \/ PrintOutput

SpecPermit == InitPermit /\ [][NextPermit]_vars

(***************************************************************************)
(* Vocabulary of the properties                                            *)
(***************************************************************************)
\* check_permit has returned for permits[idx - 1], and no later call of
\* get_permit_information has begun
Checked == pc \in {"main", "print", "done"} /\ idx > 1

\* the tuple check_permit returned for permits[idx - 1]
checked_info ==
    info_by_permit_id[IndexOfPermit(info_by_permit_id, permits[idx - 1], 1)].info

\* get_permit_information has returned for the current api_data
Normalized == pc = "permit_name" \/ Checked

\* the date entries of the monthly responses, with the defaults .get supplies
InputRecords ==
    UNION {UNION {{[id |-> dv.id, date |-> it.date,
                    remaining |-> GetOr(it.info, "remaining", 0),
                    total |-> GetOr(it.info, "total", 0)] :
                      it \in Range(GetOr(dv.data, "date_availability", <<>>))} :
                  dv \in Range(GetOr(GetOr(resp, "payload", resp),
                                     "availability", <<>>))} :
           resp \in Range(api_data)}

\* the date records of the normalizer's result
OutputRecords ==
    UNION {{[id |-> dv.id, date |-> r.date, remaining |-> r.remaining,
             total |-> r.total] : r \in Range(dv.available_dates)} :
           dv \in Range(permit_information)}

\* the date records of every RunResult entry
ReportedRecords ==
    UNION {UNION {Range(dv.dates) : dv \in Range(e.info.available_divisions)} :
           e \in Range(info_by_permit_id)}

\* the dates reported for division id in the tuple check_permit returned
ReportedDates(info, id) ==
    UNION {Range(dv.dates) : dv \in {x \in Range(info.available_divisions) : x.id = id}}

(***************************************************************************)
(* C1  candidate dates of the aggregator                                   *)
(***************************************************************************)
\* C1 as stated: with weekends_only = false the candidate-date set holds only
\* dates d with start < d <= end; start is never a candidate and end is one
\* whenever end > start.
C1_CandidatesStartExclusiveEndInclusive ==
    (Checked /\ ~args.weekends_only) =>
        /\ \A d \in dates_in_range_set :
               args.start_date < strptime(d) /\ strptime(d) <= args.end_date
        /\ format_date(args.start_date) \notin dates_in_range_set
        /\ (args.end_date > args.start_date =>
                format_date(args.end_date) \in dates_in_range_set)

\* C1 as amended: with weekends_only = false the candidate-date set holds only
\* dates d with start <= d < end; end is never a candidate and start is one
\* whenever end > start.
C1_CandidatesStartInclusiveEndExclusive ==
    (Checked /\ ~args.weekends_only) =>
        /\ \A d \in dates_in_range_set :
               args.start_date <= strptime(d) /\ strptime(d) < args.end_date
        /\ format_date(args.end_date) \notin dates_in_range_set
        /\ (args.end_date > args.start_date =>
                format_date(args.start_date) \in dates_in_range_set)

C1_Witness ==
    /\ Checked /\ ~args.weekends_only
    /\ args.end_date > args.start_date + 1
    /\ format_date(args.start_date) \in dates_in_range_set
    /\ \E r \in ReportedRecords : r.date = format_date(args.start_date)

(***************************************************************************)
(* C2  what the normalizer keeps                                           *)
(***************************************************************************)
\* C2: the records of the normalizer's result are exactly the input records
\* with remaining > 0 and start <= date < end, each under its own division,
\* and no record with remaining = 0 is in the RunResult or in the output.
C2_NormalizerKeepsExactlyAvailableInWindow ==
    /\ Normalized =>
           OutputRecords =
               {r \in InputRecords :
                    /\ r.remaining > 0
                    /\ args.start_date <= strptime(r.date)
                    /\ strptime(r.date) < args.end_date}
    /\ \A r \in ReportedRecords : r.remaining > 0
    /\ \A k \in 1..Len(stdout) : \A j \in 1..Len(stdout[k]) :
           (~json_output /\ stdout[k][j].kind = "date") => stdout[k][j].remaining > 0

C2_Witness ==
    /\ Normalized
    /\ \E r \in InputRecords :
           r.remaining = 0 /\ args.start_date <= strptime(r.date)
           /\ strptime(r.date) < args.end_date
    /\ \E r \in InputRecords : r.remaining > 0 /\ strptime(r.date) = args.end_date
    /\ \E r \in OutputRecords : strptime(r.date) = args.start_date

(***************************************************************************)
(* C3  the aggregator's two filters                                        *)
(***************************************************************************)
\* C3: for every division of the normalized input, a date record is reported
\* for it exactly when it is one of its input records, its date is in the
\* candidate set and its remaining is at least min_permits.
C3_ReportedExactlyCandidatesAtThreshold ==
    Checked =>
        \A dv \in Range(permit_information) :
            ReportedDates(checked_info, dv.id) =
                {r \in Range(dv.available_dates) :
                     r.date \in dates_in_range_set
                     /\ ~(r.remaining < args.min_permits)}

C3_Witness ==
    /\ Checked
    /\ args.min_permits > 1
    /\ \E dv \in Range(permit_information) :
          /\ \E r \in Range(dv.available_dates) :
                 r.remaining < args.min_permits /\ r.date \in dates_in_range_set
          /\ \E r \in ReportedDates(checked_info, dv.id) :
                 r.remaining = args.min_permits

(***************************************************************************)
(* C4  divisions and counts of the aggregate                               *)
(***************************************************************************)
\* C4: a division is in available_divisions iff one of its dates survives
\* the filters, never with an empty list; current is the number of entries of
\* available_divisions, maximum the number of divisions of the normalized
\* input, and current <= maximum.
C4_DivisionsAndCounts ==
    Checked =>
        LET ids == {dv.id : dv \in Range(checked_info.available_divisions)}
        IN  /\ \A dv \in Range(permit_information) :
                   dv.id \in ids <=>
                       \E r \in Range(dv.available_dates) :
                           r.date \in dates_in_range_set
                           /\ r.remaining >= args.min_permits
            /\ ids \subseteq {dv.id : dv \in Range(permit_information)}
            /\ \A dv \in Range(checked_info.available_divisions) : dv.dates # <<>>
            /\ checked_info.current = Len(checked_info.available_divisions)
            /\ checked_info.current = Cardinality(ids)
            /\ checked_info.maximum = Len(permit_information)
            /\ checked_info.current <= checked_info.maximum

C4_Witness ==
    /\ Checked
    /\ checked_info.maximum = 2
    /\ checked_info.current = 1
    /\ \E dv \in Range(permit_information) :
           /\ dv.available_dates # <<>>
           /\ \A x \in Range(checked_info.available_divisions) : x.id # dv.id

(***************************************************************************)
(* C5  weekends_only                                                       *)
(***************************************************************************)
\* C5: with weekends_only = true every candidate and every reported date is a
\* Friday or a Saturday; a window of seven days keeps exactly two candidate
\* dates; and what is reported is part of what the same input gives with
\* weekends_only = false.
C5_WeekendsOnlyFridaySaturday ==
    (Checked /\ args.weekends_only) =>
        /\ \A d \in dates_in_range_set : weekday(strptime(d)) \in {4, 5}
        /\ \A r \in ReportedRecords : weekday(strptime(r.date)) \in {4, 5}
        /\ (args.end_date - args.start_date = 7 =>
                Cardinality(dates_in_range_set) = 2)
        /\ LET all == get_num_available_dates(
                          permit_information, args.start_date, args.end_date,
                          FALSE, args.min_permits)
           IN  \A dv \in Range(permit_information) :
                   ReportedDates(checked_info, dv.id) \subseteq ReportedDates(all, dv.id)

C5_Witness ==
    /\ Checked /\ args.weekends_only
    /\ args.end_date - args.start_date = 7
    /\ \E r \in ReportedRecords : weekday(strptime(r.date)) = 5
    /\ \E dv \in Range(permit_information) :
           \E r \in Range(dv.available_dates) :
               weekday(strptime(r.date)) = 0
               /\ r \notin ReportedDates(checked_info, dv.id)

(***************************************************************************)
(* Vocabulary of the renderer properties                                   *)
(***************************************************************************)
HumanRendered == ~json_output /\ output # <<>>
JsonRendered == json_output /\ output # <<>>

\* the permits of the RunResult with available_division_count > 0
AvailablePermits == {e \in Range(info_by_permit_id) : e.info.current > 0}

OfKind(lines, kind) == SelectSeq(lines, LAMBDA l : l.kind = kind)

\* the lines after the summary line of permit_id, up to the next summary line
BlockOf(lines, permit_id) ==
    LET j == CHOOSE k \in 1..Len(lines) :
                 lines[k].kind = "summary" /\ lines[k].permit_id = permit_id
        later == {k \in (j + 1)..Len(lines) : lines[k].kind = "summary"}
        last == IF later = {} THEN Len(lines)
                ELSE (CHOOSE k \in later : \A x \in later : k <= x) - 1
    IN  SubSeq(lines, j + 1, last)

(***************************************************************************)
(* C6  division sub-headers of the human renderer                          *)
(***************************************************************************)
\* C6: for a permit with available divisions the human output has one
\* sub-header line per listed division, in order, iff available_divisions has
\* more than one entry or maximum > 1, and none otherwise; its date lines are
\* indented one level deeper exactly when the sub-headers are there; one
\* permit with one division out of one and one date gives three lines:
\* headline, summary, date.
C6_DivisionHeaders ==
    HumanRendered =>
        LET lines == output[1].output
        IN  /\ \A e \in Range(info_by_permit_id) :
                   e.info.available_divisions # <<>> =>
                       LET block == BlockOf(lines, e.permit_id)
                           headers == OfKind(block, "division")
                           divs == e.info.available_divisions
                           shown == Len(divs) > 1 \/ e.info.maximum > 1
                       IN  /\ shown => /\ Len(headers) = Len(divs)
                                       /\ \A k \in 1..Len(divs) :
                                              headers[k].div_id = divs[k].id
                           /\ ~shown => headers = <<>>
                           /\ \A k \in 1..Len(block) :
                                  block[k].kind = "date" =>
                                      block[k].indent = IF shown THEN "  " ELSE ""
                           /\ OfKind(block, "date") # <<>>
            /\ (/\ Len(info_by_permit_id) = 1
                /\ info_by_permit_id[1].info.maximum = 1
                /\ Len(info_by_permit_id[1].info.available_divisions) = 1
                /\ Len(info_by_permit_id[1].info.available_divisions[1].dates) = 1)
               => /\ Len(lines) = 3
                  /\ lines[1].kind = "headline"
                  /\ lines[2].kind = "summary"
                  /\ lines[3].kind = "date"

C6_Witness ==
    /\ HumanRendered
    /\ \E e \in Range(info_by_permit_id) :
           /\ Len(e.info.available_divisions) = 1
           /\ e.info.maximum = 2
           /\ OfKind(BlockOf(output[1].output, e.permit_id), "division") # <<>>
    /\ \E e \in Range(info_by_permit_id) :
           /\ Len(e.info.available_divisions) = 1
           /\ e.info.maximum = 1
           /\ OfKind(BlockOf(output[1].output, e.permit_id), "division") = <<>>

(***************************************************************************)
(* C7  the machine renderer                                                *)
(***************************************************************************)
\* C7: the json mapping has a key for a permit iff its
\* available_division_count > 0, once; the value under the key is that
\* permit's available_divisions; the flag is true iff the mapping is not
\* empty.
C7_JsonKeysAreAvailablePermits ==
    JsonRendered =>
        LET mapping == output[1].output
        IN  /\ {m.key : m \in Range(mapping)}
                   = {ToString(e.permit_id) : e \in AvailablePermits}
            /\ Len(mapping) = Cardinality(AvailablePermits)
            /\ \A e \in AvailablePermits : \A m \in Range(mapping) :
                   m.key = ToString(e.permit_id) =>
                       m.value = e.info.available_divisions
            /\ output[1].has_availabilities <=> mapping # <<>>

C7_Witness ==
    /\ JsonRendered
    /\ Len(info_by_permit_id) = 2
    /\ Cardinality(AvailablePermits) = 1
    /\ Len(output[1].output) = 1
    /\ output[1].has_availabilities

(***************************************************************************)
(* C8  headline and summary lines of the human renderer                    *)
(***************************************************************************)
\* C8: the human output starts with its only headline line, the celebratory
\* one iff some permit has available_division_count > 0 and the "no permits
\* available" one otherwise; the flag is true in the first case only; every
\* permit of the RunResult has exactly one summary line.
C8_HeadlineAndSummaries ==
    HumanRendered =>
        LET lines == output[1].output
        IN  /\ lines[1].kind = "headline"
            /\ Len(OfKind(lines, "headline")) = 1
            /\ (AvailablePermits # {} =>
                    lines[1].text = "there are permits available")
            /\ (AvailablePermits = {} =>
                    lines[1].text = "There are no permits available :(")
            /\ output[1].has_availabilities <=> AvailablePermits # {}
            /\ Len(OfKind(lines, "summary")) = Len(info_by_permit_id)
            /\ \A e \in Range(info_by_permit_id) :
                   Cardinality({k \in 1..Len(lines) :
                                    lines[k].kind = "summary"
                                    /\ lines[k].permit_id = e.permit_id}) = 1

C8_Witness ==
    /\ HumanRendered
    /\ Len(info_by_permit_id) = 2
    /\ info_by_permit_id[1].info.current > 0
    /\ info_by_permit_id[2].info.current = 0
    /\ output[1].output[1].text = "there are permits available"

(***************************************************************************)
(* C9  the orchestrator                                                    *)
(***************************************************************************)
OfOps(ops) == SelectSeq(trace, LAMBDA ev : ev.op \in ops)

\* C9: when main has returned, the normalizer and then the aggregator have
\* been called once for each entry of permits, in list order; print has been
\* called once, after every check and after the one renderer call; the
\* renderer called is the json one iff json_output; and the value returned is
\* true iff some permit of the RunResult has available_division_count > 0.
C9_CompletedRun ==
    pc = "done" =>
        LET checks == OfOps({"get_permit_information", "get_num_available_dates"})
            renders == OfOps({"generate_json_output", "generate_human_output"})
        IN  /\ Len(checks) = 2 * Len(permits)
            /\ \A i \in 1..Len(permits) :
                   /\ checks[2 * i - 1] = Event("get_permit_information", permits[i], 0)
                   /\ checks[2 * i] = Event("get_num_available_dates", permits[i], 0)
            /\ Len(stdout) = 1
            /\ stdout[1] = output[1].output
            /\ Len(OfOps({"print"})) = 1
            /\ trace[Len(trace)].op = "print"
            /\ Len(renders) = 1
            /\ trace[Len(trace) - 1] = renders[1]
            /\ renders[1].op = IF json_output THEN "generate_json_output"
                               ELSE "generate_human_output"
            /\ ret = <<AvailablePermits # {}>>

C9_Witness ==
    /\ pc = "done"
    /\ json_output
    /\ Len(permits) = 2
    /\ permits[1] # permits[2]
    /\ ret = <<TRUE>>
    /\ info_by_permit_id[2].info.current = 0

(***************************************************************************)
(* C10  a failing external fetch                                           *)
(***************************************************************************)
HasRaised == \E k \in 1..Len(trace) : trace[k].op = "raise"

\* C10: a raising fetch is the last thing the run does: the state it leaves
\* has nothing rendered, printed or returned, and from then on no external
\* call, component call, renderer call or print is added and the RunResult
\* does not change.
C10_FetchFailureAbortsRun ==
    [][/\ HasRaised => UNCHANGED <<trace, info_by_permit_id, output, stdout, ret>>
       /\ HasRaised' => /\ output' = <<>>
                        /\ stdout' = <<>>
                        /\ ret' = <<>>
                        /\ trace'[Len(trace')].op = "raise"]_vars

C10_Witness ==
    /\ HasRaised
    /\ idx = 2
    /\ Len(permits) = 2
    /\ info_by_permit_id[1].info.current > 0
    /\ stdout = <<>>

(***************************************************************************)
(* C11  accumulation across months                                         *)
(***************************************************************************)
\* the availability object of the i-th monthly response
AvailabilityOfMonth(i) ==
    GetOr(GetOr(api_data[i], "payload", api_data[i]), "availability", <<>>)

\* the division ids that occur in some monthly response
InputIds == UNION {{dv.id : dv \in Range(AvailabilityOfMonth(i))} : i \in 1..Len(api_data)}

\* the entries of division id in the i-th response that survive the two
\* tests of the normalizer, as records, in response order
SurvivorsOfMonth(i, id) ==
    LET here == SelectSeq(AvailabilityOfMonth(i), LAMBDA dv : dv.id = id)
        items == IF here = <<>> THEN <<>>
                 ELSE GetOr(here[1].data, "date_availability", <<>>)
        recs == [k \in 1..Len(items) |->
                    [date |-> items[k].date,
                     remaining |-> GetOr(items[k].info, "remaining", 0),
                     total |-> GetOr(items[k].info, "total", 0)]]
    IN  SelectSeq(recs, LAMBDA r : /\ r.remaining > 0
                                   /\ args.start_date <= strptime(r.date)
                                   /\ strptime(r.date) < args.end_date)

RECURSIVE SurvivorsUpTo(_, _)
SurvivorsUpTo(n, id) ==
    IF n = 0 THEN <<>> ELSE SurvivorsUpTo(n - 1, id) \o SurvivorsOfMonth(n, id)

Count(seq, x) == Cardinality({k \in 1..Len(seq) : seq[k] = x})

\* C11: in the normalizer's result every division id of some monthly response
\* is present exactly once and no other id is; a division's list holds, with
\* their multiplicity, the surviving entries of all months together; a
\* division without a surviving entry is present with an empty list.
C11_MonthsAccumulate ==
    Normalized =>
        /\ {dv.id : dv \in Range(permit_information)} = InputIds
        /\ Len(permit_information) = Cardinality(InputIds)
        /\ \A dv \in Range(permit_information) :
               LET all == SurvivorsUpTo(Len(api_data), dv.id)
               IN  /\ Len(dv.available_dates) = Len(all)
                   /\ \A r \in Range(all) :
                          Count(dv.available_dates, r) = Count(all, r)
                   /\ all = <<>> => dv.available_dates = <<>>

C11_Witness ==
    /\ Normalized
    /\ Len(api_data) = 2
    /\ \E id \in InputIds :
           SurvivorsOfMonth(1, id) # <<>> /\ SurvivorsOfMonth(2, id) # <<>>
    /\ \E id \in InputIds :
           /\ SurvivorsOfMonth(1, id) # <<>>
           /\ \A dv \in Range(AvailabilityOfMonth(2)) : dv.id # id
           /\ \E dv \in Range(permit_information) :
                  dv.id = id /\ dv.available_dates # <<>>

\* a division whose entries are all dropped keeps its place, with no dates
C11_WitnessEmpty ==
    /\ Normalized
    /\ \E dv \in Range(permit_information) :
           /\ dv.available_dates = <<>>
           /\ \E i \in 1..Len(api_data) : \E x \in Range(AvailabilityOfMonth(i)) :
                  x.id = dv.id /\ GetOr(x.data, "date_availability", <<>>) # <<>>

(***************************************************************************)
(* C12  date order                                                         *)
(***************************************************************************)
\* the records of a list are in calendar order, equal dates allowed
Ascending(records) ==
    \A i, j \in 1..Len(records) :
        i < j => strptime(records[i].date) <= strptime(records[j].date)

\* C12: every division's list in the normalizer's result is in ascending
\* calendar order (entries of the same date, from different months, are
\* neighbours); the aggregator reports each division's dates in the order they
\* have in its input, so every dates list of the RunResult is ascending too.
C12_DatesAscending ==
    /\ Normalized => \A dv \in Range(permit_information) : Ascending(dv.available_dates)
    /\ Checked =>
           \A dv \in Range(checked_info.available_divisions) :
               \A x \in Range(permit_information) :
                   x.id = dv.id =>
                       dv.dates = SelectSeq(x.available_dates,
                                            LAMBDA r : r \in Range(dv.dates))
    /\ \A e \in Range(info_by_permit_id) :
           \A dv \in Range(e.info.available_divisions) : Ascending(dv.dates)

C12_Witness ==
    /\ Checked
    /\ \E id \in InputIds : \E i \in 1..Len(api_data) :
           LET kept == SurvivorsOfMonth(i, id)
           IN  Len(kept) > 1 /\ strptime(kept[1].date) > strptime(kept[2].date)
    /\ \E dv \in Range(checked_info.available_divisions) : Len(dv.dates) > 1

\* a later date arrives in the first month's response, an earlier one in the
\* second month's
C12_WitnessMonths ==
    /\ Checked
    /\ Len(api_data) = 2
    /\ \E id \in InputIds :
           LET first == SurvivorsOfMonth(1, id)
               second == SurvivorsOfMonth(2, id)
           IN  /\ first # <<>> /\ second # <<>>
               /\ strptime(first[1].date) > strptime(second[1].date)
               /\ ReportedDates(checked_info, id) # {}

(***************************************************************************)
(* C13  the requests of one call of the normalizer                         *)
(***************************************************************************)
\* windows that begin and end on the last and first days of months
MonthWindows ==
    {[start_date |-> s, end_date |-> e] :
        s \in {datetime(2022, 11, 30), datetime(2022, 12, 1),
               datetime(2022, 12, 31), datetime(2023, 1, 1)},
        e \in {datetime(2022, 11, 30), datetime(2022, 12, 1),
               datetime(2022, 12, 31), datetime(2023, 1, 1),
               datetime(2023, 1, 31), datetime(2023, 2, 1)}}

\* runs of main on one permit, over windows of zero to four months
InitMonths == InitWith(Args(MonthWindows, {1}), {<<1>>}, {FALSE})

SpecMonths == InitMonths /\ [][Next]_vars

\* the first days of the calendar months from the month of start_date on
\* whose first day is not after end_date
ExpectedMonths ==
    {d \in CalendarDays :
        /\ Calendar[d][3] = 1
        /\ d <= args.end_date
        /\ \/ Calendar[d][1] > Calendar[args.start_date][1]
           \/ /\ Calendar[d][1] = Calendar[args.start_date][1]
              /\ Calendar[d][2] >= Calendar[args.start_date][2]}

\* what the call of get_permit_information in progress, or just returned,
\* has added to the trace
RECURSIVE LastIndexOf(_, _)
LastIndexOf(op, k) ==
    IF k = 0 THEN 0 ELSE IF trace[k].op = op THEN k ELSE LastIndexOf(op, k - 1)

NormalizerCalls ==
    SubSeq(trace, LastIndexOf("get_permit_information", Len(trace)) + 1, Len(trace))

\* C13: when get_permit_information returns, it has requested the monthly
\* availability of its permit once for each expected month and for no other
\* date, in ascending month order, and the permit metadata once, and has made
\* no other external call.
C13_OneRequestPerMonth ==
    pc = "permit_name" =>
        LET calls == NormalizerCalls
            monthly == SelectSeq(calls, LAMBDA ev : ev.op = "get_permit_availability")
            meta == SelectSeq(calls, LAMBDA ev : ev.op = "get_permit_info")
        IN  /\ {ev.month : ev \in Range(monthly)} = ExpectedMonths
            /\ Len(monthly) = Cardinality(ExpectedMonths)
            /\ \A i, j \in 1..Len(monthly) : i < j => monthly[i].month < monthly[j].month
            /\ Len(meta) = 1
            /\ Len(calls) = Len(monthly) + 1
            /\ \A ev \in Range(calls) : ev.permit_id = permit_id_now

C13_Witness ==
    /\ pc = "permit_name"
    /\ Cardinality(ExpectedMonths) = 4
    /\ Calendar[args.start_date][3] # 1
    /\ Calendar[args.end_date][3] = 1
    /\ Len(api_data) = 4

\* a window that ends before the month of start_date begins: no month is requested
C13_WitnessNoMonth ==
    pc = "permit_name" /\ ExpectedMonths = {} /\ Len(NormalizerCalls) = 1

====
